---- MODULE Spec2Model ----
(***************************************************************************)
(* Model of flamby/datasets/fed_heart_disease/dataset.py:                  *)
(*   HeartDiseaseRaw  (construction, __len__, __getitem__)                 *)
(*   FedHeartDisease  (construction = HeartDiseaseRaw construction, the    *)
(*                     center assertion, then the boolean-mask filter)     *)
(* together with the process-wide numpy random stream the constructor      *)
(* reseeds and draws from.                                                 *)
(*                                                                         *)
(* Representation.                                                         *)
(*  - A data file is [center, rows]; a row is [miss, label] where miss is  *)
(*    the set of column indices holding "?" and label the value of the     *)
(*    last column (0..4).  A directory is the sequence of its *.data files *)
(*    in the order glob() discovers them.                                  *)
(*  - A feature tensor is [row, dtype]: row = <<file index, line index>>   *)
(*    names the source row the vector was encoded from (get_dummies and    *)
(*    astype work row by row and neither add, drop nor reorder rows), and  *)
(*    dtype is the torch dtype of the tensor.                              *)
(*  - A label tensor is [val, dtype].                                      *)
(*  - numpy's generator is a deterministic function of its state; it is    *)
(*    modelled by a linear congruential generator over 0..RngMod-1.        *)
(*  - Every directory holds at least one file and every file at least one  *)
(*    row, its center name is one of the four known names and its label    *)
(*    column is numeric; asserts are executed.  A directory whose rows     *)
(*    are all dropped yields the empty dataset.                            *)
(***************************************************************************)
EXTENDS Integers, Sequences, FiniteSets, TLC

VARIABLES
    dir,    \* the dataset directory: sequence of data files in discovery order
    rng,    \* state of the global numpy random stream
    objs,   \* program variables holding dataset objects (or None)
    ret     \* outcome of the last call: value returned or exception raised

vars == <<dir, rng, objs, ret>>

---------------------------------------------------------------------------
(* Bounds of the model *)

MaxTotalRows == 3
RngMod == 8

---------------------------------------------------------------------------
(* Program constants *)

Seed == 8
train_fraction == 66          \* 0.66, in hundredths

CenterNames == {"cleveland", "hungarian", "switzerland", "va"}

centers_number ==
    [n \in CenterNames |->
        CASE n = "cleveland" -> 0
          [] n = "hungarian" -> 1
          [] n = "switzerland" -> 2
          [] n = "va" -> 3]

DroppedCols == {10, 11, 12}

ValidCenters == {0, 1, 2, 3}

DefaultDtype == "float32"

None == [cls |-> "None"]

---------------------------------------------------------------------------
(* The random stream *)

\* mutant: the stream is not reseeded and goes on from where it is
RngSeedKeep(n) == rng

\* np.random.seed(n): the state is a function of the seed alone
RngSeed(n) == n % RngMod

\* one np.random.rand() call advances the state
RngStep(s) == (5 * s + 1) % RngMod

\* the draw produced in state s is s / RngMod; "rand() < train_fraction"
IsTrainDraw(s) == s * 100 < train_fraction * RngMod

---------------------------------------------------------------------------
(* HeartDiseaseRaw.__init__ *)

\* mutant: dropna before the three columns are dropped
RetainedStrict(row) == row.miss = {}

\* df.replace("?", NaN).drop([10, 11, 12], axis=1).dropna(axis=0):
\* a row survives iff no column left after the drop holds "?"
Retained(row) == row.miss \ DroppedCols = {}

\* line numbers of the rows of one file that survive, in file order
RECURSIVE KeptLines(_, _)
KeptLines(rows, k) ==
    IF k > Len(rows) THEN <<>>
    ELSE (IF Retained(rows[k]) THEN <<k>> ELSE <<>>) \o KeptLines(rows, k + 1)

\* for _ in range(nb): sets += ["train"] if rand() < train_fraction else ["test"]
RECURSIVE DrawSets(_, _)
DrawSets(nb, s) ==
    IF nb = 0 THEN [sets |-> <<>>, rng |-> s]
    ELSE LET s1 == RngStep(s)
             rest == DrawSets(nb - 1, s1)
         IN [sets |-> <<IF IsTrainDraw(s1) THEN "train" ELSE "test">> \o rest.sets,
             rng |-> rest.rng]

\* the loop over the discovered files: acc is the state of the accumulators
\* (features, labels, centers, sets) and of the random stream
RECURSIVE LoadFiles(_, _, _)
LoadFiles(d, k, acc) ==
    IF k > Len(d) THEN acc
    ELSE LET f == d[k]
             kept == KeptLines(f.rows, 1)
             nb == Len(kept)
             drawn == DrawSets(nb, acc.rng)
         IN LoadFiles(d, k + 1,
                [features |-> acc.features \o [i \in 1..nb |-> <<k, kept[i]>>],
                 labels |-> acc.labels \o [i \in 1..nb |-> f.rows[kept[i]].label],
                 centers |-> acc.centers \o [i \in 1..nb |-> centers_number[f.center]],
                 sets |-> acc.sets \o drawn.sets,
                 rng |-> drawn.rng])

\* mutant: labels.where(labels != 0, 1)
BinarizeInverted(l) == IF l # 0 THEN l ELSE 1

\* labels.where(labels == 0, 1): 0 is kept, every other value becomes 1
Binarize(l) == IF l = 0 THEN 0 ELSE 1

\* torch dtype given to the label tensor
LabelDtype(X_dtype, y_dtype) == X_dtype

\* The whole constructor, run on directory d.  Yields the object built and the
\* state the random stream is left in; the state the stream was in before the
\* call is overwritten by np.random.seed(8) and plays no part.
HeartDiseaseRawInit(d, X_dtype, y_dtype) ==
    LET acc == LoadFiles(d, 1, [features |-> <<>>, labels |-> <<>>,
                                centers |-> <<>>, sets |-> <<>>,
                                rng |-> RngSeed(Seed)])
        n == Len(acc.features)
    IN [obj |-> [cls |-> "HeartDiseaseRaw",
                 X_dtype |-> X_dtype,
                 y_dtype |-> y_dtype,
                 features |-> [i \in 1..n |-> [row |-> acc.features[i], dtype |-> X_dtype]],
                 labels |-> [i \in 1..n |-> [val |-> Binarize(acc.labels[i]),
                                             dtype |-> LabelDtype(X_dtype, y_dtype)]],
                 centers |-> acc.centers,
                 sets |-> acc.sets,
                 chosen_centers |-> {},
                 chosen_sets |-> {}],
        rng |-> acc.rng]

---------------------------------------------------------------------------
(* FedHeartDisease.__init__ *)

\* mutant: the center is not looked at when pooling
CenterOkUnlessPooled(center, pooled) == pooled \/ center \in ValidCenters

\* assert center in [0, 1, 2, 3]
CenterOk(center, pooled) == center \in ValidCenters

\* mutant: pooling takes the data "from the 2 centers" only
ChosenCentersTwo(center, pooled) == IF pooled THEN {0, 1} ELSE {center}

ChosenCenters(center, pooled) == IF pooled THEN {0, 1, 2, 3} ELSE {center}

\* mutant: the test view keeps the train rows too
ChosenSetsLeaky(train) == IF train THEN {"train"} ELSE {"train", "test"}

ChosenSets(train) == IF train THEN {"train"} ELSE {"test"}

\* mutant: "or" in place of "and"
ToSelectOr(o, idx, chosen_sets, chosen_centers) ==
    (o.sets[idx] \in chosen_sets) \/ (o.centers[idx] \in chosen_centers)

\* to_select[idx]
ToSelect(o, idx, chosen_sets, chosen_centers) ==
    (o.sets[idx] \in chosen_sets) /\ (o.centers[idx] \in chosen_centers)

\* [fp for idx, fp in enumerate(seq) if to_select[idx]]
RECURSIVE Select(_, _, _)
Select(seq, mask, k) ==
    IF k > Len(seq) THEN <<>>
    ELSE (IF mask[k] THEN <<seq[k]>> ELSE <<>>) \o Select(seq, mask, k + 1)

\* mutant: the labels are filtered by split alone
ApplyMaskLabelsBySet(o, mask, chosen_sets, chosen_centers) ==
    [cls |-> "FedHeartDisease",
     X_dtype |-> o.X_dtype,
     y_dtype |-> o.y_dtype,
     features |-> Select(o.features, mask, 1),
     labels |-> Select(o.labels, [idx \in DOMAIN o.sets |-> o.sets[idx] \in chosen_sets], 1),
     centers |-> Select(o.centers, mask, 1),
     sets |-> Select(o.sets, mask, 1),
     chosen_centers |-> chosen_centers,
     chosen_sets |-> chosen_sets]

\* the four list comprehensions filtering features, sets, labels and centers
ApplyMask(o, mask, chosen_sets, chosen_centers) ==
    [cls |-> "FedHeartDisease",
     X_dtype |-> o.X_dtype,
     y_dtype |-> o.y_dtype,
     features |-> Select(o.features, mask, 1),
     labels |-> Select(o.labels, mask, 1),
     centers |-> Select(o.centers, mask, 1),
     sets |-> Select(o.sets, mask, 1),
     chosen_centers |-> chosen_centers,
     chosen_sets |-> chosen_sets]

\* The whole constructor.  The parent constructor runs first (and moves the
\* random stream) whether or not the center assertion then fails.
FedHeartDiseaseInit(d, center, train, pooled, X_dtype, y_dtype) ==
    LET base == HeartDiseaseRawInit(d, X_dtype, y_dtype)
        cc == ChosenCenters(center, pooled)
        cs == ChosenSets(train)
        mask == [idx \in 1..Len(base.obj.features) |-> ToSelect(base.obj, idx, cs, cc)]
    IN IF ~CenterOk(center, pooled)
       THEN [obj |-> None, exc |-> "AssertionError", rng |-> base.rng]
       ELSE [obj |-> ApplyMask(base.obj, mask, cs, cc), exc |-> "none", rng |-> base.rng]

---------------------------------------------------------------------------
(* __len__ and __getitem__ *)

\* len(self.labels)
DatasetLen(o) == Len(o.labels)

\* Python indexing of a list or tensor: negative indices count from the end
InRange(seq, idx) == idx < Len(seq) /\ idx >= -Len(seq)
PyIndex(seq, idx) == seq[(IF idx >= 0 THEN idx ELSE Len(seq) + idx) + 1]

\* mutant: the label is read one position early
DatasetGetItemShifted(o, idx) ==
    IF ~(idx < Len(o.features))
    THEN [exc |-> "AssertionError", val |-> <<>>]
    ELSE IF ~InRange(o.features, idx) \/ ~InRange(o.labels, idx - 1)
    THEN [exc |-> "IndexError", val |-> <<>>]
    ELSE [exc |-> "none", val |-> <<PyIndex(o.features, idx), PyIndex(o.labels, idx - 1)>>]

\* outcome of o[idx]: the exception raised, or the pair returned
DatasetGetItem(o, idx) ==
    IF ~(idx < Len(o.features))
    THEN [exc |-> "AssertionError", val |-> <<>>]
    ELSE IF ~InRange(o.features, idx) \/ ~InRange(o.labels, idx)
    THEN [exc |-> "IndexError", val |-> <<>>]
    ELSE [exc |-> "none", val |-> <<PyIndex(o.features, idx), PyIndex(o.labels, idx)>>]

-------------------------------------------------------------------------------------------------------------------------------------------------
(* Inputs *)

Dtypes == {"float32", "int64"}

Row(miss, label) == [miss |-> miss, label |-> label]

\* every way to cut the row sequence r into consecutive non-empty files, each
\* of a different center of C, in every discovery order
RECURSIVE Splits(_, _)
Splits(r, C) ==
    {<<[center |-> c, rows |-> r]>> : c \in C}
    \cup UNION {{<<[center |-> c, rows |-> SubSeq(r, 1, j)]>> \o rest :
                    rest \in Splits(SubSeq(r, j + 1, Len(r)), C \ {c})} :
                c \in C, j \in 1..(Len(r) - 1)}

\* directories holding 1..n rows of the kinds K in files of the centers C
DirsOver(C, K, n) == UNION {Splits(r, C) : r \in UNION {[1..m -> K] : m \in 1..n}}

NoArgs == [cls |-> "None", center |-> 0, train |-> TRUE, pooled |-> FALSE,
           X_dtype |-> DefaultDtype, y_dtype |-> DefaultDtype]

RawArgs(X_dtype, y_dtype) ==
    [NoArgs EXCEPT !.cls = "HeartDiseaseRaw", !.X_dtype = X_dtype, !.y_dtype = y_dtype]

FedArgs(center, train, pooled, X_dtype, y_dtype) ==
    [cls |-> "FedHeartDisease", center |-> center, train |-> train, pooled |-> pooled,
     X_dtype |-> X_dtype, y_dtype |-> y_dtype]

NoRet == [op |-> "none", var |-> 0, args |-> NoArgs, idx |-> 0,
          exc |-> "none", val |-> <<>>, entry |-> 0]

---------------------------------------------------------------------------
(* Operations *)

\* D: the directories, V: the program variables, R: the states the random
\* stream may be in when the program starts
InitOver(D, V, R) ==
    /\ dir \in D
    /\ rng \in R
    /\ objs = [v \in V |-> None]
    /\ ret = NoRet

\* v = HeartDiseaseRaw(X_dtype, y_dtype)
NewRaw(v, X_dtype, y_dtype) ==
    LET r == HeartDiseaseRawInit(dir, X_dtype, y_dtype)
    IN /\ objs' = [objs EXCEPT ![v] = r.obj]
       /\ rng' = r.rng
       /\ ret' = [NoRet EXCEPT !.op = "init", !.var = v,
                               !.args = RawArgs(X_dtype, y_dtype), !.entry = rng]
       /\ UNCHANGED dir

\* v = FedHeartDisease(center, train, pooled, X_dtype, y_dtype);
\* when the constructor raises, v keeps what it held
NewFed(v, center, train, pooled, X_dtype, y_dtype) ==
    LET r == FedHeartDiseaseInit(dir, center, train, pooled, X_dtype, y_dtype)
    IN /\ objs' = IF r.exc = "none" THEN [objs EXCEPT ![v] = r.obj] ELSE objs
       /\ rng' = r.rng
       /\ ret' = [NoRet EXCEPT !.op = "init", !.var = v,
                               !.args = FedArgs(center, train, pooled, X_dtype, y_dtype),
                               !.exc = r.exc, !.entry = rng]
       /\ UNCHANGED dir

\* len(v)
CallLen(v) ==
    /\ objs[v] # None
    /\ ret' = [NoRet EXCEPT !.op = "len", !.var = v, !.val = DatasetLen(objs[v])]
    /\ UNCHANGED <<dir, rng, objs>>

\* v[idx]
CallGetItem(v, idx) ==
    /\ objs[v] # None
    /\ LET r == DatasetGetItem(objs[v], idx)
       IN ret' = [NoRet EXCEPT !.op = "getitem", !.var = v, !.idx = idx,
                               !.exc = r.exc, !.val = r.val]
    /\ UNCHANGED <<dir, rng, objs>>

\* np.random.rand() called by some other code of the process
ExternalDraw ==
    /\ rng' = RngStep(rng)
    /\ ret' = [NoRet EXCEPT !.op = "rand", !.val = RngStep(rng)]
    /\ UNCHANGED <<dir, objs>>

---------------------------------------------------------------------------
(* Input sets of the specifications *)

\* rows: complete with label 0, complete with label 2, "?" in kept column 3
KindsFed == {Row({}, 0), Row({}, 2), Row({3}, 1)}

\* rows with "?" nowhere, in dropped columns only, in a kept column, in both
KindsRaw == {Row({}, 0), Row({11}, 4), Row({10, 12}, 1), Row({3}, 2), Row({5, 11}, 3)}

RngStates == 0..(RngMod - 1)

\* indices tried on a dataset of length n: from below -n to above n
IndicesFor(o) == (-(Len(o.features) + 1))..(Len(o.features) + 1)

CenterInputs == ValidCenters \cup {-1, 4}

---------------------------------------------------------------------------
(* SpecSplit: two variables rebuilt at will from HeartDiseaseRaw, while other
   code draws from the random stream between the constructions. *)

SplitVars == {"a", "b"}

InitSplit == InitOver(DirsOver({"cleveland", "va"}, {Row({}, 0), Row({3}, 1)}, MaxTotalRows),
                      SplitVars, RngStates)

NextSplit ==
    \/ \E v \in SplitVars : NewRaw(v, DefaultDtype, DefaultDtype)
    \/ ExternalDraw

SpecSplit == InitSplit /\ [][NextSplit]_vars

---------------------------------------------------------------------------
(* SpecViews: a program that builds, one after the other, the raw dataset
   (variable 1), the eight single-center views (variables 2..9) and the
   pooled views for every center argument (variables 10..17). *)

ViewVars == 1..17

PlanCenter(k) == ((k - 2) \div 2) % 4
PlanTrain(k) == k % 2 = 0
PlanPooled(k) == k >= 10

InitViews == InitOver(DirsOver({"cleveland", "hungarian", "va"}, KindsFed, MaxTotalRows),
                      ViewVars, {5})

NextViews ==
    \/ objs[1] = None /\ NewRaw(1, DefaultDtype, DefaultDtype)
    \/ \E k \in ViewVars \ {1} :
          /\ objs[k - 1] # None
          /\ objs[k] = None
          /\ NewFed(k, PlanCenter(k), PlanTrain(k), PlanPooled(k), DefaultDtype, DefaultDtype)

SpecViews == InitViews /\ [][NextViews]_vars

---------------------------------------------------------------------------
(* SpecAccess: a program that builds one dataset, of either class and with
   any arguments, and then queries it; an exception ends the program. *)

InitAccess == InitOver(DirsOver({"hungarian", "va"}, KindsRaw, MaxTotalRows), {"ds"}, {3})

NextAccess ==
    \/ objs["ds"] = None /\ ret.exc = "none" /\ NewRaw("ds", DefaultDtype, DefaultDtype)
    \/ \E c \in CenterInputs, t \in BOOLEAN, p \in BOOLEAN :
          /\ objs["ds"] = None
          /\ ret.exc = "none"
          /\ NewFed("ds", c, t, p, DefaultDtype, DefaultDtype)
    \/ CallLen("ds")
    \/ objs["ds"] # None /\ \E idx \in IndicesFor(objs["ds"]) : CallGetItem("ds", idx)

SpecAccess == InitAccess /\ [][NextAccess]_vars

---------------------------------------------------------------------------
(* SpecDtype: as SpecAccess, with the dtype arguments varied. *)

InitDtype == InitOver(DirsOver({"cleveland", "switzerland"}, {Row({}, 0), Row({}, 3), Row({6}, 1)},
                               MaxTotalRows), {"ds"}, {0})

NextDtype ==
    \/ \E X \in Dtypes, y \in Dtypes : objs["ds"] = None /\ NewRaw("ds", X, y)
    \/ \E X \in Dtypes, y \in Dtypes, t \in BOOLEAN :
          objs["ds"] = None /\ NewFed("ds", 0, t, TRUE, X, y)
    \/ objs["ds"] # None /\ \E idx \in IndicesFor(objs["ds"]) : CallGetItem("ds", idx)

SpecDtype == InitDtype /\ [][NextDtype]_vars

---------------------------------------------------------------------------
(* Claims checked under SpecViews *)

RowsOf(o) == {o.features[i].row : i \in DOMAIN o.features}

\* position in dataset o of the feature tensor f
PosIn(o, f) == CHOOSE j \in DOMAIN o.features : o.features[j] = f

PlanSet(k) == IF PlanTrain(k) THEN "train" ELSE "test"

SingleVars == 2..9
PooledVars == 10..17

AllBuilt == \A k \in ViewVars : objs[k] # None

RECURSIVE SumLen(_)
SumLen(S) ==
    IF S = {} THEN 0
    ELSE LET k == CHOOSE x \in S : TRUE IN DatasetLen(objs[k]) + SumLen(S \ {k})

\* C1: a view built for center c and split s (pooled: for split s) holds only
\* rows that the unfiltered dataset assigns to center c and split s (pooled:
\* to split s).
C1_ViewHoldsOnlyMatchingRows ==
    \A k \in ViewVars \ {1} :
        objs[k] # None =>
            \A i \in DOMAIN objs[k].features :
                \E j \in DOMAIN objs[1].features :
                    /\ objs[1].features[j].row = objs[k].features[i].row
                    /\ objs[1].sets[j] = PlanSet(k)
                    /\ (~PlanPooled(k) => objs[1].centers[j] = PlanCenter(k))

\* a single-center view that is not empty although the unfiltered dataset has
\* rows of another center and rows of the other split, and a pooled view that
\* is neither empty nor the whole dataset
C1_Witness ==
    /\ AllBuilt
    /\ \E k \in SingleVars :
          /\ Len(objs[k].features) >= 1
          /\ \E j \in DOMAIN objs[1].centers : objs[1].centers[j] # PlanCenter(k)
          /\ \E j \in DOMAIN objs[1].sets : objs[1].sets[j] # PlanSet(k)
    /\ \E k \in PooledVars :
          /\ Len(objs[k].features) >= 1
          /\ Len(objs[k].features) < Len(objs[1].features)

\* C2: in every view features, labels, centers and sets have one length,
\* position i of each comes from one and the same row of the unfiltered
\* dataset, and the rows keep the order they have there.
C2_ParallelMaskKeepsOrder ==
    \A k \in ViewVars \ {1} :
        objs[k] # None =>
            LET o == objs[k]
                raw == objs[1]
            IN /\ Len(o.labels) = Len(o.features)
               /\ Len(o.centers) = Len(o.features)
               /\ Len(o.sets) = Len(o.features)
               /\ \A i \in DOMAIN o.features :
                     /\ \E j \in DOMAIN raw.features : raw.features[j] = o.features[i]
                     /\ o.labels[i] = raw.labels[PosIn(raw, o.features[i])]
                     /\ o.centers[i] = raw.centers[PosIn(raw, o.features[i])]
                     /\ o.sets[i] = raw.sets[PosIn(raw, o.features[i])]
               /\ \A i1, i2 \in DOMAIN o.features :
                     i1 < i2 => PosIn(raw, o.features[i1]) < PosIn(raw, o.features[i2])

\* a view of two or more rows with different labels, taken from a dataset in
\* which a row that was not selected lies before a selected one
C2_Witness ==
    \E k \in ViewVars \ {1} :
        /\ objs[k] # None
        /\ Len(objs[k].features) >= 2
        /\ objs[k].labels[1].val # objs[k].labels[2].val
        /\ PosIn(objs[1], objs[k].features[1]) > 1

C10_ViewsPartitionRaw ==
    AllBuilt =>
        /\ \A r \in RowsOf(objs[1]) :
              Cardinality({k \in SingleVars : r \in RowsOf(objs[k])}) = 1
        /\ SumLen(SingleVars) = DatasetLen(objs[1])
        /\ \A kt, ke \in PooledVars :
              (PlanTrain(kt) /\ ~PlanTrain(ke)) =>
                  /\ RowsOf(objs[kt]) \cap RowsOf(objs[ke]) = {}
                  /\ DatasetLen(objs[kt]) + DatasetLen(objs[ke]) = DatasetLen(objs[1])
        /\ \A kp \in PooledVars :
              DatasetLen(objs[kp]) = SumLen({ks \in SingleVars : PlanTrain(ks) = PlanTrain(kp)})

\* all seventeen datasets built, three of the single-center views and both
\* pooled views non-empty
C10_Witness ==
    /\ AllBuilt
    /\ Cardinality({k \in SingleVars : DatasetLen(objs[k]) >= 1}) >= 3
    /\ DatasetLen(objs[10]) >= 1
    /\ DatasetLen(objs[11]) >= 1

---------------------------------------------------------------------------
(* Claims checked under SpecSplit *)

\* state of the random stream i draws after it was seeded with 8
RECURSIVE DrawAt(_)
DrawAt(i) == IF i = 0 THEN 8 % RngMod ELSE (5 * DrawAt(i - 1) + 1) % RngMod

\* rows of the directory without "?" in a column other than 10, 11 and 12
CompleteRows ==
    {p \in (DOMAIN dir) \X (1..MaxTotalRows) :
        /\ p[2] \in DOMAIN dir[p[1]].rows
        /\ \A c \in dir[p[1]].rows[p[2]].miss : c \in {10, 11, 12}}

\* file-iteration order, then row order
Before(p, q) == p[1] < q[1] \/ (p[1] = q[1] /\ p[2] < q[2])

\* C4: every construction assigns the same splits: draw i after seeding with 8
\* decides the i-th retained row, in file order then row order, train iff the
\* draw is below 0.66, whatever state the stream was in before.
C4_SplitIsReproducible ==
    /\ \A v, w \in DOMAIN objs :
          (objs[v] # None /\ objs[w] # None) => objs[v].sets = objs[w].sets
    /\ \A v \in DOMAIN objs :
          objs[v] # None =>
              /\ Len(objs[v].sets) = Cardinality(CompleteRows)
              /\ \A i \in DOMAIN objs[v].sets :
                    (objs[v].sets[i] = "train") <=> (DrawAt(i) * 100 < 66 * RngMod)
              /\ \A i \in DOMAIN objs[v].sets : objs[v].sets[i] \in {"train", "test"}
              /\ \A i, j \in DOMAIN objs[v].features :
                    i < j => Before(objs[v].features[i].row, objs[v].features[j].row)
    /\ ret.op = "init" => rng = DrawAt(Len(objs[ret.var].sets))

\* both variables hold a dataset with train and test rows, and the second
\* construction started from a stream that other draws had moved on from
\* where the first construction left it
C4_Witness ==
    /\ objs["a"] # None
    /\ objs["b"] # None
    /\ ret.op = "init"
    /\ ret.entry # DrawAt(Len(objs["a"].sets))
    /\ ret.entry # 8 % RngMod
    /\ \E i, j \in DOMAIN objs["a"].sets :
          objs["a"].sets[i] = "train" /\ objs["a"].sets[j] = "test"

---------------------------------------------------------------------------
(* Claims checked under SpecAccess *)

RawLabelOf(f) == dir[f.row[1]].rows[f.row[2]].label

\* C3: a label returned by indexed access, on the raw dataset or on a view,
\* is 0 when the raw label of its row is 0 and 1 when it is 1, 2, 3 or 4.
C3_LabelsAreBinary ==
    (ret.op = "getitem" /\ ret.exc = "none") =>
        /\ ret.val[2].val \in {0, 1}
        /\ RawLabelOf(ret.val[1]) = 0 => ret.val[2].val = 0
        /\ RawLabelOf(ret.val[1]) # 0 => ret.val[2].val = 1

\* a view returns label 1 for a row whose raw label is above 1
C3_Witness ==
    /\ ret.op = "getitem"
    /\ ret.exc = "none"
    /\ objs[ret.var].cls = "FedHeartDisease"
    /\ RawLabelOf(ret.val[1]) > 1
    /\ ret.val[2].val = 1

\* C5: FedHeartDisease with a center outside {0, 1, 2, 3} raises and binds no
\* dataset, whatever train and pooled are.
C5_InvalidCenterRejected ==
    (ret.op = "init" /\ ret.args.cls = "FedHeartDisease"
        /\ ret.args.center \notin {0, 1, 2, 3}) =>
            /\ ret.exc = "AssertionError"
            /\ objs[ret.var] = None

\* a pooled construction with center 4 has raised
C5_Witness ==
    /\ ret.op = "init"
    /\ ret.args.cls = "FedHeartDisease"
    /\ ret.args.center = 4
    /\ ret.args.pooled
    /\ ret.exc = "AssertionError"

\* C6: an index at or above len(dataset) raises and returns nothing, an index
\* in 0..len-1 returns the feature and label at that position, and the number
\* of features is the number of labels.
C6_GetItemChecksBounds ==
    ret.op = "getitem" =>
        LET o == objs[ret.var]
        IN /\ Len(o.features) = DatasetLen(o)
           /\ ret.idx >= DatasetLen(o) => (ret.exc # "none" /\ ret.val = <<>>)
           /\ (0 <= ret.idx /\ ret.idx < DatasetLen(o)) =>
                 /\ ret.exc = "none"
                 /\ ret.val = <<o.features[ret.idx + 1], o.labels[ret.idx + 1]>>

\* a view of two rows has been read at the index equal to its length, and the
\* call has raised
C6_Witness ==
    /\ ret.op = "getitem"
    /\ objs[ret.var].cls = "FedHeartDisease"
    /\ DatasetLen(objs[ret.var]) = 2
    /\ ret.idx = 2
    /\ ret.exc = "AssertionError"

\* a view of two rows with different labels has been read at its last valid
\* index
C6_WitnessInRange ==
    /\ ret.op = "getitem"
    /\ objs[ret.var].cls = "FedHeartDisease"
    /\ DatasetLen(objs[ret.var]) = 2
    /\ ret.idx = 1
    /\ ret.exc = "none"
    /\ objs[ret.var].labels[1] # objs[ret.var].labels[2]

\* C8: len(HeartDiseaseRaw) is the number of rows, over all files, without
\* "?" in a column other than 10, 11 and 12; the dataset holds exactly those
\* rows, and centers and sets have that length.
C8_LenCountsCompleteRows ==
    /\ (ret.op = "len" /\ objs[ret.var].cls = "HeartDiseaseRaw") =>
          ret.val = Cardinality(CompleteRows)
    /\ \A v \in DOMAIN objs :
          objs[v].cls = "HeartDiseaseRaw" =>
              /\ RowsOf(objs[v]) = CompleteRows
              /\ Len(objs[v].centers) = Cardinality(CompleteRows)
              /\ Len(objs[v].sets) = Cardinality(CompleteRows)

\* len() of a raw dataset read from two files holding a row with "?" only in
\* dropped columns, a row with "?" in a kept column and a row without "?"
C8_Witness ==
    /\ ret.op = "len"
    /\ objs[ret.var].cls = "HeartDiseaseRaw"
    /\ Len(dir) = 2
    /\ ret.val = 2
    /\ \E k \in DOMAIN dir : \E j \in DOMAIN dir[k].rows :
          dir[k].rows[j].miss # {} /\ dir[k].rows[j].miss \subseteq {10, 11, 12}
    /\ \E k \in DOMAIN dir : \E j \in DOMAIN dir[k].rows :
          dir[k].rows[j].miss \ {10, 11, 12} # {}
    /\ \E k \in DOMAIN dir : \E j \in DOMAIN dir[k].rows : dir[k].rows[j].miss = {}

---------------------------------------------------------------------------
(* Claims checked under SpecDtype *)

\* C9: the features returned by indexed access have dtype X_dtype and the
\* labels returned have dtype y_dtype.
C9_DtypesFollowArguments ==
    (ret.op = "getitem" /\ ret.exc = "none") =>
        /\ ret.val[1].dtype = objs[ret.var].X_dtype
        /\ ret.val[2].dtype = objs[ret.var].y_dtype

====
